---- MODULE Spec2Model ----
(***************************************************************************)
(* A model of mkdirr (src/src/lib.rs, src/src/main.rs): the symbolic       *)
(* permission-mode parser Mode::try_from, the Mode -> permission bits      *)
(* conversion, create_directory and the run loop over the requested        *)
(* paths, with main's handling of the result.                              *)
(*                                                                         *)
(* Strings are sequences of one-character strings, so that to_lowercase,   *)
(* contains, split, splitn and join are computed character by character.   *)
(***************************************************************************)
EXTENDS Integers, Sequences, FiniteSets, TLC

VARIABLES
    mode_arg,   \* the value of -m/--mode on the command line, or NoArg
    parents,    \* Config.parents
    verbose,    \* Config.verbose
    ndirs,      \* Config.dir_name.len()
    mode,       \* Config.mode: [some |-> FALSE] or [some |-> TRUE, mode |-> Mode]
    parsed,     \* the last result of Mode::try_from, or Pending
    fs,         \* the filesystem: resolved path -> [kind, bits, own]
    superuser,  \* whether the process runs as the superuser
    pc,         \* "start", "run", "main_err", "exited", "parsed"
    idx,        \* position in dir_name of the next path run will process
    last,       \* what the latest iteration of run's loop did
    stdout,     \* the lines written to standard output since the latest
                \* iteration of run's loop began
    stderr,     \* the messages written to the error stream since then
    exit_code   \* the process exit status once pc = "exited", else -1

vars == << mode_arg, parents, verbose, ndirs, mode, parsed, fs, superuser, pc,
           idx, last, stdout, stderr, exit_code >>

(***************************************************************************)
(* String helpers                                                          *)
(***************************************************************************)

\* char::to_lowercase on the characters the inputs use
LowerChar(c) ==
    CASE c = "R" -> "r"
      [] c = "W" -> "w"
      [] c = "X" -> "x"
      [] c = "U" -> "u"
      [] c = "G" -> "g"
      [] c = "O" -> "o"
      [] OTHER -> c

\* String::to_lowercase
to_lowercase(s) == [i \in 1..Len(s) |-> LowerChar(s[i])]

\* str::contains(char)
contains(s, c) == \E i \in 1..Len(s) : s[i] = c

\* position of the first occurrence of c in s, 0 when there is none
RECURSIVE FindFrom(_, _, _)
FindFrom(s, c, i) ==
    IF i > Len(s) THEN 0
    ELSE IF s[i] = c THEN i
    ELSE FindFrom(s, c, i + 1)

\* str::split(sep): always at least one piece; "" splits into [""]
RECURSIVE split(_, _)
split(s, sep) ==
    LET k == FindFrom(s, sep, 1) IN
    IF k = 0 THEN << s >>
    ELSE << SubSeq(s, 1, k - 1) >> \o split(SubSeq(s, k + 1, Len(s)), sep)

\* str::splitn(2, sep): one piece when sep is absent, else the text before the
\* first sep and everything after it
splitn2(s, sep) ==
    LET k == FindFrom(s, sep, 1) IN
    IF k = 0 THEN << s >>
    ELSE << SubSeq(s, 1, k - 1), SubSeq(s, k + 1, Len(s)) >>

\* [&str]::join(sep)
RECURSIVE join(_, _)
join(parts, sep) ==
    IF Len(parts) = 0 THEN << >>
    ELSE IF Len(parts) = 1 THEN parts[1]
    ELSE parts[1] \o << sep >> \o join(Tail(parts), sep)

(***************************************************************************)
(* Mode and Mode::try_from                                                 *)
(***************************************************************************)

\* Mode::default(): every flag false
DefaultMode ==
    [ user_read |-> FALSE, user_write |-> FALSE, user_execute |-> FALSE,
      group_read |-> FALSE, group_write |-> FALSE, group_execute |-> FALSE,
      other_read |-> FALSE, other_write |-> FALSE, other_execute |-> FALSE ]

Ok(m) == [ok |-> TRUE, mode |-> m]
Err(e) == [ok |-> FALSE, err |-> e]

\* "rwx".contains(c)
IsPermChar(c) == c \in {"r", "w", "x"}

\* match (class, p) { ... }: nine arms set a flag, the wildcard arm is the error
SetFlag(m, class, p) ==
    CASE class = << "u" >> /\ p = "r" -> Ok([m EXCEPT !.user_read = TRUE])
      [] class = << "u" >> /\ p = "w" -> Ok([m EXCEPT !.user_write = TRUE])
      [] class = << "u" >> /\ p = "x" -> Ok([m EXCEPT !.user_execute = TRUE])
      [] class = << "g" >> /\ p = "r" -> Ok([m EXCEPT !.group_read = TRUE])
      [] class = << "g" >> /\ p = "w" -> Ok([m EXCEPT !.group_write = TRUE])
      [] class = << "g" >> /\ p = "x" -> Ok([m EXCEPT !.group_execute = TRUE])
      [] class = << "o" >> /\ p = "r" -> Ok([m EXCEPT !.other_read = TRUE])
      [] class = << "o" >> /\ p = "w" -> Ok([m EXCEPT !.other_write = TRUE])
      [] class = << "o" >> /\ p = "x" -> Ok([m EXCEPT !.other_execute = TRUE])
      [] OTHER -> Err("Unknown class or perm")

\* for p in perms.chars() { match (class, p) ... }
RECURSIVE ApplyPerms(_, _, _)
ApplyPerms(m, class, perms) ==
    IF Len(perms) = 0 THEN Ok(m)
    ELSE LET r == SetFlag(m, class, Head(perms)) IN
         IF r.ok THEN ApplyPerms(r.mode, class, Tail(perms)) ELSE r

\* the body of the loop over s.split(","): one segment
ParseSegment(m, group_perms) ==
    LET it == splitn2(group_perms, "=") IN
    IF Len(it) < 2 THEN Err("Invalid mode segment")
    ELSE IF \E i \in 1..Len(it[2]) : ~IsPermChar(it[2][i])
         THEN Err("Invalid permissions in")
    ELSE ApplyPerms(m, it[1], it[2])

\* a variant in which every segment starts from the default mode again, so
\* that only the last segment's flags are kept
RECURSIVE ParseSegmentsNoAccumulate(_, _)
ParseSegmentsNoAccumulate(m, segs) ==
    IF Len(segs) = 0 THEN Ok(m)
    ELSE LET r == ParseSegment(DefaultMode, Head(segs)) IN
         IF r.ok THEN ParseSegmentsNoAccumulate(r.mode, Tail(segs)) ELSE r

\* the loop over the segments, stopping at the first error
RECURSIVE ParseSegments(_, _)
ParseSegments(m, segs) ==
    IF Len(segs) = 0 THEN Ok(m)
    ELSE LET r == ParseSegment(m, Head(segs)) IN
         IF r.ok THEN ParseSegments(r.mode, Tail(segs)) ELSE r

\* a variant that sets the user flags only
ShorthandUserOnly(s) ==
    LET read == contains(s, "r")
        write == contains(s, "w")
        exec == contains(s, "x")
    IN  [ DefaultMode EXCEPT !.user_read = read, !.user_write = write,
                             !.user_execute = exec ]

\* the shorthand branch: the letters apply to user, group and other alike
Shorthand(s) ==
    LET read == contains(s, "r")
        write == contains(s, "w")
        exec == contains(s, "x")
    IN  [ user_read |-> read, user_write |-> write, user_execute |-> exec,
          group_read |-> read, group_write |-> write, group_execute |-> exec,
          other_read |-> read, other_write |-> write, other_execute |-> exec ]

\* Mode::try_from(value: String)
try_from(value) ==
    LET s == to_lowercase(value) IN
    IF Len(s) = 0 THEN Err("Mode must be defined")
    ELSE IF contains(s, "=") THEN ParseSegments(DefaultMode, split(s, ","))
    ELSE IF \E i \in 1..Len(s) : ~IsPermChar(s[i]) THEN Err("Invalid mode")
    ELSE Ok(Shorthand(s))

(***************************************************************************)
(* impl From<&Mode> for Permissions                                        *)
(***************************************************************************)

\* a | b on non-negative integers
RECURSIVE BitOr(_, _)
BitOr(a, b) ==
    IF a = 0 THEN b
    ELSE IF b = 0 THEN a
    ELSE (IF a % 2 = 1 \/ b % 2 = 1 THEN 1 ELSE 0) + 2 * BitOr(a \div 2, b \div 2)

\* if flag { bits |= weight }
OrIf(flag, bits, weight) == IF flag THEN BitOr(bits, weight) ELSE bits

\* a variant with the weights of group write and group execute exchanged
ModeBitsSwapped(value) ==
    LET b1 == OrIf(value.user_read, 0, 256)
        b2 == OrIf(value.user_write, b1, 128)
        b3 == OrIf(value.user_execute, b2, 64)
        b4 == OrIf(value.group_read, b3, 32)
        b5 == OrIf(value.group_write, b4, 8)
        b6 == OrIf(value.group_execute, b5, 16)
        b7 == OrIf(value.other_read, b6, 4)
        b8 == OrIf(value.other_write, b7, 2)
        b9 == OrIf(value.other_execute, b8, 1)
    IN  b9

\* Permissions::from(&Mode): 0o400 = 256, 0o200 = 128, 0o100 = 64, 0o040 = 32,
\* 0o020 = 16, 0o010 = 8, 0o004 = 4, 0o002 = 2, 0o001 = 1
ModeBits(value) ==
    LET b1 == OrIf(value.user_read, 0, 256)
        b2 == OrIf(value.user_write, b1, 128)
        b3 == OrIf(value.user_execute, b2, 64)
        b4 == OrIf(value.group_read, b3, 32)
        b5 == OrIf(value.group_write, b4, 16)
        b6 == OrIf(value.group_execute, b5, 8)
        b7 == OrIf(value.other_read, b6, 4)
        b8 == OrIf(value.other_write, b7, 2)
        b9 == OrIf(value.other_execute, b8, 1)
    IN  b9

(***************************************************************************)
(* The filesystem primitives the program calls.  An entry is keyed by its  *)
(* resolved path: the root it starts from (Root for an absolute path, Cwd  *)
(* for a relative one) followed by its non-empty components.  Both roots   *)
(* always exist as directories.  An entry records its kind, its permission *)
(* bits and whether the calling user owns it; the caller is in no group    *)
(* that owns an entry of another user, so the user class of the bits       *)
(* governs its own entries and the other class everyone else's.  The       *)
(* superuser passes every permission test.                                 *)
(***************************************************************************)

Root == << "/" >>
Cwd == << "." >>

\* the permission bits a directory gets at creation: 0o777 minus a umask of 0o022
DefaultBits == 7 * 64 + 5 * 8 + 5

Dir(bits, own) == [kind |-> "dir", bits |-> bits, own |-> own]
File(bits, own) == [kind |-> "file", bits |-> bits, own |-> own]

NonEmpty(p) == Len(p) > 0

\* the entry key a path string resolves to (empty components are skipped)
KeyOf(path) ==
    << IF Len(path) > 0 /\ path[1] = "/" THEN Root ELSE Cwd >>
        \o SelectSeq(split(path, "/"), NonEmpty)

TrailingSlash(path) == Len(path) > 0 /\ path[Len(path)] = "/"

Prefix(key, i) == SubSeq(key, 1, i)

IsDirKey(f, key) == key \in DOMAIN f /\ f[key].kind = "dir"

HasBit(bits, weight) == (bits \div weight) % 2 = 1

\* the kernel's permission test of the caller on an entry: what is 4 (read),
\* 2 (write) or 1 (search)
Permits(su, e, what) ==
    su \/ HasBit(e.bits, IF e.own THEN what * 64 ELSE what)

\* the walk to the entry Prefix(key, i): each component is looked up in a
\* directory the caller may search; the errno of the first step that fails
RECURSIVE Walk(_, _, _, _)
Walk(f, su, key, i) ==
    IF i = 1 THEN "ok"
    ELSE LET st == Walk(f, su, key, i - 1)
             parent == Prefix(key, i - 1)
         IN  IF st # "ok" THEN st
             ELSE IF f[parent].kind # "dir" THEN "ENOTDIR"
             ELSE IF ~Permits(su, f[parent], 1) THEN "EACCES"
             ELSE IF Prefix(key, i) \notin DOMAIN f THEN "ENOENT"
             ELSE "ok"

\* path resolution for a lookup: "ok", or the errno of the walk
LookupStatus(f, su, path) ==
    LET key == KeyOf(path)
        st == Walk(f, su, key, Len(key))
    IN  IF Len(path) = 0 THEN "ENOENT"
        ELSE IF st # "ok" THEN st
        ELSE IF f[key].kind = "file" /\ TrailingSlash(path) THEN "ENOTDIR"
        ELSE "ok"

\* fs::metadata(path).is_ok()
metadata_is_ok(f, su, path) == LookupStatus(f, su, path) = "ok"

\* mkdir(2) on the entry key: "ok" when the walk reaches the parent, the
\* parent is a directory the caller may search and write, and the last
\* component is missing
MkdirKeyStatus(f, su, key) ==
    LET n == Len(key)
        parent == Prefix(key, n - 1)
        st == Walk(f, su, key, n - 1)
    IN  IF n = 1 THEN "EEXIST"
        ELSE IF st # "ok" THEN st
        ELSE IF f[parent].kind # "dir" THEN "ENOTDIR"
        ELSE IF ~Permits(su, f[parent], 1) THEN "EACCES"
        ELSE IF key \in DOMAIN f THEN "EEXIST"
        ELSE IF ~Permits(su, f[parent], 2) THEN "EACCES"
        ELSE "ok"

MkdirStatus(f, su, path) ==
    IF Len(path) = 0 THEN "ENOENT" ELSE MkdirKeyStatus(f, su, KeyOf(path))

FsOk(f) == [ok |-> TRUE, fs |-> f, err |-> "none"]
FsErr(f, e) == [ok |-> FALSE, fs |-> f, err |-> e]

\* a directory made by the caller
NewDir(f, key) == f @@ (key :> Dir(DefaultBits, TRUE))

\* fs::create_dir(path)
create_dir(f, su, path) ==
    LET st == MkdirStatus(f, su, path) IN
    IF st # "ok" THEN FsErr(f, st) ELSE FsOk(NewDir(f, KeyOf(path)))

\* Path::is_dir on the entry key
is_dir(f, su, key) == Walk(f, su, key, Len(key)) = "ok" /\ f[key].kind = "dir"

\* DirBuilder::create_dir_all on the first n components of key: mkdir; on
\* NotFound the parent is built first and mkdir is tried again; any other
\* error is forgiven when the path is a directory
RECURSIVE CreateDirAll(_, _, _, _)
CreateDirAll(f, su, key, n) ==
    LET path == Prefix(key, n)
        st == MkdirKeyStatus(f, su, path)
    IN  IF n = 1 THEN FsOk(f)
        ELSE IF st = "ok" THEN FsOk(NewDir(f, path))
        ELSE IF st = "ENOENT" THEN
            LET r == CreateDirAll(f, su, key, n - 1)
                again == MkdirKeyStatus(r.fs, su, path)
            IN  IF ~r.ok THEN r
                ELSE IF again = "ok" THEN FsOk(NewDir(r.fs, path))
                ELSE IF is_dir(r.fs, su, path) THEN FsOk(r.fs)
                ELSE FsErr(r.fs, again)
        ELSE IF is_dir(f, su, path) THEN FsOk(f)
        ELSE FsErr(f, st)

\* fs::create_dir_all(path): Ok for the empty path
create_dir_all(f, su, path) ==
    IF Len(path) = 0 THEN FsOk(f)
    ELSE LET key == KeyOf(path) IN CreateDirAll(f, su, key, Len(key))

\* fs::set_permissions(path, Permissions::from_mode(bits)): chmod(2), which
\* only the owner of the entry or the superuser may do
set_permissions(f, su, path, bits) ==
    LET st == LookupStatus(f, su, path) IN
    IF st # "ok" THEN FsErr(f, st)
    ELSE IF ~su /\ ~f[KeyOf(path)].own THEN FsErr(f, "EPERM")
    ELSE FsOk([f EXCEPT ![KeyOf(path)].bits = bits])

(***************************************************************************)
(* create_directory                                                        *)
(***************************************************************************)

\* format!("created directory '{}'\n", path)
CreatedLine(path) == [text |-> "created directory", path |-> path]

\* the loop over parts.iter().enumerate(): one line for every prefix
\* parts[..=index].join("/") whose metadata lookup fails
RECURSIVE VerboseInfo(_, _, _, _)
VerboseInfo(f, su, parts, index) ==
    IF index > Len(parts) THEN << >>
    ELSE LET full_path == join(SubSeq(parts, 1, index), "/") IN
         (IF metadata_is_ok(f, su, full_path) THEN << >>
          ELSE << CreatedLine(full_path) >>)
         \o VerboseInfo(f, su, parts, index + 1)

CdOk(f, out) == [ok |-> TRUE, fs |-> f, out |-> out, err |-> "none"]
CdErr(f, e) == [ok |-> FALSE, fs |-> f, out |-> << >>, err |-> e]

\* a variant without the early return for an existing path: with parents it
\* reports the target whenever create_dir_all succeeds
create_directoryNoEarlyReturn(f, su, dir_name, par, verb) ==
    IF par THEN
        LET r == create_dir_all(f, su, dir_name) IN
        IF r.ok
        THEN CdOk(r.fs, IF verb THEN << CreatedLine(dir_name) >> ELSE << >>)
        ELSE CdErr(r.fs, r.err)
    ELSE LET r == create_dir(f, su, dir_name) IN
         IF r.ok
         THEN CdOk(r.fs, IF verb THEN << CreatedLine(dir_name) >> ELSE << >>)
         ELSE CdErr(r.fs, r.err)

\* create_directory(dir_name, parents, verbose)
create_directory(f, su, dir_name, par, verb) ==
    IF par THEN
        IF metadata_is_ok(f, su, dir_name) THEN CdOk(f, << >>)
        ELSE LET verbose_info ==
                     IF verb THEN VerboseInfo(f, su, split(dir_name, "/"), 1)
                     ELSE << >>
                 r == create_dir_all(f, su, dir_name)
             IN  IF r.ok THEN CdOk(r.fs, verbose_info) ELSE CdErr(r.fs, r.err)
    ELSE LET r == create_dir(f, su, dir_name) IN
         IF r.ok
         THEN CdOk(r.fs, IF verb THEN << CreatedLine(dir_name) >> ELSE << >>)
         ELSE CdErr(r.fs, r.err)

(***************************************************************************)
(* Inputs                                                                  *)
(***************************************************************************)

\* the longest argument list of one run
MaxPaths == 2
\* the most comma-separated segments of a generated mode expression
MaxSegs == 2
\* the longest generated expression without '='
MaxShort == 3

NoArg == [some |-> FALSE, value |-> << >>]
Arg(v) == [some |-> TRUE, value |-> v]

NoMode == [some |-> FALSE, mode |-> DefaultMode]
SomeMode(m) == [some |-> TRUE, mode |-> m]

Pending == [ok |-> FALSE, err |-> "pending"]

\* the directory arguments: a  a/b  a/b/c  /a  a//b  a/  (empty)  f  f/b:
\* relative and absolute, nested, with empty components (leading, doubled
\* and trailing '/'), the empty string, and paths through the file f
PathArgs ==
    { << "a" >>,
      << "a", "/", "b" >>,
      << "a", "/", "b", "/", "c" >>,
      << "/", "a" >>,
      << "a", "/", "/", "b" >>,
      << "a", "/" >>,
      << >>,
      << "f" >>,
      << "f", "/", "b" >> }

\* the root directory belongs to another user, the working directory to the
\* caller
BaseFs ==
    (<< Root >> :> Dir(DefaultBits, FALSE)) @@ (<< Cwd >> :> Dir(DefaultBits, TRUE))

\* the filesystems a run may start from: empty; a (0o700) and a/b owned by
\* the caller; the same two owned by another user; the caller's file f; and
\* the caller's a/b/c next to another user's /a
InitialFs ==
    { BaseFs,
      BaseFs @@ (<< Cwd, << "a" >> >> :> Dir(7 * 64, TRUE))
             @@ (<< Cwd, << "a" >>, << "b" >> >> :> Dir(DefaultBits, TRUE)),
      BaseFs @@ (<< Cwd, << "a" >> >> :> Dir(7 * 64, FALSE))
             @@ (<< Cwd, << "a" >>, << "b" >> >> :> Dir(DefaultBits, FALSE)),
      BaseFs @@ (<< Cwd, << "f" >> >> :> File(6 * 64 + 4 * 8 + 4, TRUE)),
      BaseFs @@ (<< Root, << "a" >> >> :> Dir(DefaultBits, FALSE))
             @@ (<< Cwd, << "a" >> >> :> Dir(DefaultBits, TRUE))
             @@ (<< Cwd, << "a" >>, << "b" >> >> :> Dir(DefaultBits, TRUE))
             @@ (<< Cwd, << "a" >>, << "b" >>, << "c" >> >> :> Dir(DefaultBits, TRUE)) }

\* the -m values of the runs: u=rwx,g=rx,o=r  rwx  g=rx  o=r  w  c
ModeArgs ==
    { << "u", "=", "r", "w", "x", ",", "g", "=", "r", "x", ",", "o", "=", "r" >>,
      << "r", "w", "x" >>,
      << "g", "=", "r", "x" >>,
      << "o", "=", "r" >>,
      << "w" >>,
      << "c" >> }

\* the mode expressions the parser is checked on
ClassStrs == { << "u" >>, << "g" >>, << "o" >>, << "z" >>, << >>, << "U" >> }
PermStrs ==
    { << >>, << "r" >>, << "w" >>, << "x" >>, << "r", "w" >>, << "w", "r" >>,
      << "r", "w", "x" >>, << "r", "z" >> }
Segments ==
    { c \o << "=" >> \o q : c \in ClassStrs, q \in PermStrs }
        \cup { << >>, << "r" >> }
ShortChars == { "r", "w", "x", "R", "X", "c" }

SymbolicInputs ==
    { join(segs, ",") : segs \in UNION { [1..k -> Segments] : k \in 1..MaxSegs } }
ShortInputs == UNION { [1..k -> ShortChars] : k \in 0..MaxShort }
ModeInputs == SymbolicInputs \cup ShortInputs

(***************************************************************************)
(* The program: read_config, run, main                                     *)
(***************************************************************************)

NoStep ==
    [pos |-> 0, path |-> << >>, existed |-> "none", created |-> FALSE,
     chmod |-> "none"]

Msg(text, path, err) == [text |-> text, path |-> path, err |-> err]

\* the kind of entry a path names, "none" when the lookup fails
KindOf(f, su, path) ==
    IF metadata_is_ok(f, su, path) THEN f[KeyOf(path)].kind ELSE "none"

InitCommon ==
    /\ parsed = Pending
    /\ mode = NoMode
    /\ pc = "start"
    /\ idx = 0
    /\ last = NoStep
    /\ stdout = << >>
    /\ stderr = << >>
    /\ exit_code = -1

Init ==
    /\ mode_arg \in { NoArg } \cup { Arg(v) : v \in ModeArgs }
    /\ parents \in BOOLEAN
    /\ verbose \in BOOLEAN
    /\ ndirs \in 1..MaxPaths
    /\ fs \in InitialFs
    /\ superuser \in BOOLEAN
    /\ InitCommon

\* read_config: clap parses the arguments; value_parser!(Mode) runs
\* Mode::from_str on the -m value, and get_matches exits with status 2 when
\* that fails
ReadConfig ==
    /\ pc = "start"
    /\ IF mode_arg.some
       THEN LET r == try_from(mode_arg.value) IN
            /\ parsed' = r
            /\ IF r.ok
               THEN /\ mode' = SomeMode(r.mode)
                    /\ pc' = "run"
                    /\ idx' = 1
                    /\ UNCHANGED << stderr, exit_code >>
               ELSE /\ stderr' = Append(stderr, Msg("invalid value for --mode", << >>, r.err))
                    /\ pc' = "exited"
                    /\ exit_code' = 2
                    /\ UNCHANGED << mode, idx >>
       ELSE /\ pc' = "run"
            /\ idx' = 1
            /\ UNCHANGED << parsed, mode, stderr, exit_code >>
    /\ UNCHANGED << mode_arg, parents, verbose, ndirs, fs, superuser, last,
                    stdout >>

\* a variant in which a creation failure is propagated with `?` instead of
\* being reported: run stops at the first path that cannot be created
RunDirStopOnCreateError(dir) ==
    LET r == create_directory(fs, superuser, dir, parents, verbose)
        existed == KindOf(fs, superuser, dir)
        s == set_permissions(r.fs, superuser, dir, ModeBits(mode.mode))
        chmod == IF ~r.ok \/ ~mode.some THEN "none"
                 ELSE IF s.ok THEN "ok" ELSE s.err
    IN  /\ stdout' = r.out
        /\ stderr' = << >>
        /\ fs' = IF r.ok /\ mode.some THEN s.fs ELSE r.fs
        /\ last' = [pos |-> idx, path |-> dir, existed |-> existed,
                    created |-> r.ok, chmod |-> chmod]
        /\ IF r.ok /\ chmod \in { "none", "ok" }
           THEN idx' = idx + 1 /\ pc' = pc
           ELSE idx' = idx /\ pc' = "main_err"

\* a variant in which a set_permissions failure is reported like a creation
\* failure and the loop goes on to the next path
RunDirIgnoreChmodError(dir) ==
    LET r == create_directory(fs, superuser, dir, parents, verbose)
        existed == KindOf(fs, superuser, dir)
        s == set_permissions(r.fs, superuser, dir, ModeBits(mode.mode))
        chmod == IF ~r.ok \/ ~mode.some THEN "none"
                 ELSE IF s.ok THEN "ok" ELSE s.err
    IN  /\ stdout' = r.out
        /\ stderr' = IF r.ok THEN << >>
                     ELSE << Msg("cannot create directory", dir, r.err) >>
        /\ fs' = IF r.ok /\ mode.some THEN s.fs ELSE r.fs
        /\ last' = [pos |-> idx, path |-> dir, existed |-> existed,
                    created |-> r.ok, chmod |-> chmod]
        /\ idx' = idx + 1
        /\ pc' = pc

\* one iteration of run's loop over config.dir_name, on the path dir
RunDir(dir) ==
    LET r == create_directory(fs, superuser, dir, parents, verbose)
        existed == KindOf(fs, superuser, dir)
    IN  IF ~r.ok
        THEN /\ stderr' = << Msg("cannot create directory", dir, r.err) >>
             /\ stdout' = << >>
             /\ fs' = r.fs
             /\ last' = [pos |-> idx, path |-> dir, existed |-> existed,
                         created |-> FALSE, chmod |-> "none"]
             /\ idx' = idx + 1
             /\ UNCHANGED pc
        ELSE IF ~mode.some
        THEN /\ stdout' = r.out
             /\ stderr' = << >>
             /\ fs' = r.fs
             /\ last' = [pos |-> idx, path |-> dir, existed |-> existed,
                         created |-> TRUE, chmod |-> "none"]
             /\ idx' = idx + 1
             /\ UNCHANGED pc
        ELSE LET s == set_permissions(r.fs, superuser, dir, ModeBits(mode.mode)) IN
             /\ stdout' = r.out
             /\ stderr' = << >>
             /\ fs' = s.fs
             /\ last' = [pos |-> idx, path |-> dir, existed |-> existed,
                         created |-> TRUE,
                         chmod |-> IF s.ok THEN "ok" ELSE s.err]
             /\ IF s.ok
                THEN idx' = idx + 1 /\ pc' = pc
                ELSE idx' = idx /\ pc' = "main_err"

Iterate ==
    /\ pc = "run"
    /\ idx <= ndirs
    /\ \E dir \in PathArgs : RunDir(dir)
    /\ UNCHANGED << mode_arg, parents, verbose, ndirs, mode, parsed, superuser,
                    exit_code >>

\* run returns Ok(()) after the last path; main returns and the process
\* exits with status 0
RunOk ==
    /\ pc = "run"
    /\ idx > ndirs
    /\ pc' = "exited"
    /\ exit_code' = 0
    /\ UNCHANGED << mode_arg, parents, verbose, ndirs, mode, parsed, fs,
                    superuser, idx, last, stdout, stderr >>

\* main: if let Err(err) = ... { eprintln!("{}", err) }; then main returns
MainErr ==
    /\ pc = "main_err"
    /\ stderr' = Append(stderr, Msg("error", last.path, last.chmod))
    /\ pc' = "exited"
    /\ exit_code' = 0
    /\ UNCHANGED << mode_arg, parents, verbose, ndirs, mode, parsed, fs,
                    superuser, idx, last, stdout >>

Next == ReadConfig \/ Iterate \/ RunOk \/ MainErr

Spec == Init /\ [][Next]_vars

\* the parser alone, on every generated mode expression
InitMode ==
    /\ mode_arg \in { Arg(v) : v \in ModeInputs }
    /\ parents = FALSE
    /\ verbose = FALSE
    /\ ndirs = 1
    /\ fs = BaseFs
    /\ superuser = FALSE
    /\ InitCommon

NextMode == ReadConfig

SpecMode == InitMode /\ [][NextMode]_vars

(***************************************************************************)
(* Properties of the mode parser, checked under SpecMode                   *)
(***************************************************************************)

\* the -m value, as typed
expr == mode_arg.value

\* ReadConfig has run Mode::try_from on the -m expr
Parsed == pc # "start" /\ mode_arg.some

\* the flag of class c ("u", "g", "o") and permission p ("r", "w", "x")
Flag(m, c, p) ==
    CASE c = "u" /\ p = "r" -> m.user_read
      [] c = "u" /\ p = "w" -> m.user_write
      [] c = "u" /\ p = "x" -> m.user_execute
      [] c = "g" /\ p = "r" -> m.group_read
      [] c = "g" /\ p = "w" -> m.group_write
      [] c = "g" /\ p = "x" -> m.group_execute
      [] c = "o" /\ p = "r" -> m.other_read
      [] c = "o" /\ p = "w" -> m.other_write
      [] c = "o" /\ p = "x" -> m.other_execute

\* position i of v is the first character of a comma-separated segment
SegStart(v, i) == i = 1 \/ v[i - 1] = ","

\* v is c=P,c=P,...,c=P with every c in {u,g,o} and every P over {r,w,x}
WellFormedSymbolic(v) ==
    /\ Len(v) > 0
    /\ \A i \in 1..Len(v) :
          IF SegStart(v, i)
          THEN v[i] \in { "u", "g", "o" } /\ i < Len(v) /\ v[i + 1] = "="
          ELSE \/ v[i] \in { "r", "w", "x" }
               \/ v[i] = "=" /\ SegStart(v, i - 1)
               \/ v[i] = "," /\ i < Len(v)

\* some segment of v with class c contains the letter p
Named(v, c, p) ==
    \E i \in 1..Len(v), j \in 1..Len(v) :
        /\ SegStart(v, i)
        /\ v[i] = c
        /\ j > i + 1
        /\ v[j] = p
        /\ \A k \in i..j : v[k] # ","

\* C1: a mode expression made of segments c=P, c in {u,g,o}, P over {r,w,x},
\* parses, and the resulting Mode has flag (c,p) set exactly when some
\* segment of class c contains the letter p, whatever the order of the
\* segments and however the letters of a class are split across segments.
C1_SymbolicFlags ==
    (Parsed /\ WellFormedSymbolic(expr)) =>
        /\ parsed.ok
        /\ mode = SomeMode(parsed.mode)
        /\ \A c \in { "u", "g", "o" }, p \in { "r", "w", "x" } :
              Flag(parsed.mode, c, p) <=> Named(expr, c, p)

\* u=r,u=w has been parsed and gave user read and user write, nothing else
C1_Witness ==
    /\ Parsed
    /\ expr = << "u", "=", "r", ",", "u", "=", "w" >>
    /\ parsed.ok
    /\ parsed.mode = [DefaultMode EXCEPT !.user_read = TRUE, !.user_write = TRUE]

\* v is a non-empty string over r, w, x in either case
ShorthandLetters(v) ==
    Len(v) > 0 /\ \A i \in 1..Len(v) : v[i] \in { "r", "w", "x", "R", "W", "X" }

\* the letter p occurs in v, in either case
HasLetter(v, p) ==
    \E i \in 1..Len(v) :
        \/ v[i] = p
        \/ p = "r" /\ v[i] = "R"
        \/ p = "w" /\ v[i] = "W"
        \/ p = "x" /\ v[i] = "X"

\* C2: an expression without '=' that is a non-empty string over r, w, x (any
\* order, any case, repeats allowed) parses, and user, group and other all
\* get exactly the letters it holds; an empty one, or one with any other
\* character, is an error and no Mode is produced.
C2_Shorthand ==
    (Parsed /\ ~contains(expr, "=")) =>
        IF ShorthandLetters(expr)
        THEN /\ parsed.ok
             /\ mode = SomeMode(parsed.mode)
             /\ \A c \in { "u", "g", "o" }, p \in { "r", "w", "x" } :
                   Flag(parsed.mode, c, p) <=> HasLetter(expr, p)
        ELSE /\ ~parsed.ok
             /\ mode = NoMode
             /\ pc = "exited"

\* Rx has been parsed: read and execute for all three classes, no write
C2_Witness ==
    /\ Parsed
    /\ expr = << "R", "x" >>
    /\ parsed.ok
    /\ parsed.mode.group_read /\ parsed.mode.other_execute
    /\ ~parsed.mode.user_write

\* some comma-separated segment of v has a '=' and a class part (the text
\* before its first '=') that is not u, g or o once lower-cased
HasBadClass(v) ==
    \E i \in 1..Len(v) :
        /\ SegStart(v, i)
        /\ LET rest == SubSeq(v, i, Len(v))
               seg == SubSeq(rest, 1, IF FindFrom(rest, ",", 1) = 0 THEN Len(rest)
                                      ELSE FindFrom(rest, ",", 1) - 1)
               eq == FindFrom(seg, "=", 1)
           IN  /\ eq > 0
               /\ to_lowercase(SubSeq(seg, 1, eq - 1))
                     \notin { << "u" >>, << "g" >>, << "o" >> }

\* C3: in the symbolic form, a segment whose class is not u, g or o makes
\* Mode::try_from fail whatever its permission part is, an empty one
\* included: no such expression yields a Mode.
C3_BadClassRejected ==
    (Parsed /\ HasBadClass(expr)) => (~parsed.ok /\ mode = NoMode)

(***************************************************************************)
(* Properties of create_directory and run, checked under Spec              *)
(***************************************************************************)

\* the step is one iteration of run's loop (only Iterate changes last)
IterStep == last' # last

\* the directories the step created
NewDirs == { k \in DOMAIN fs' : k \notin DOMAIN fs /\ fs'[k].kind = "dir" }

\* the step printed one line per created directory and nothing else, the
\* shallowest directory first and the target last
LinesAreNewDirs ==
    /\ Len(stdout') = Cardinality(NewDirs)
    /\ \A i \in 1..Len(stdout') :
          /\ stdout'[i].text = "created directory"
          /\ Len(stdout'[i].path) > 0
          /\ KeyOf(stdout'[i].path) \in NewDirs
    /\ \A i \in 1..Len(stdout'), j \in 1..Len(stdout') :
          i < j => Len(KeyOf(stdout'[i].path)) < Len(KeyOf(stdout'[j].path))
    /\ Len(stdout') > 0 => stdout'[Len(stdout')].path = last'.path

\* C4: with parents and verbose, on any target path (relative or absolute,
\* with or without empty components), a successful create_directory prints
\* exactly one line per directory that did not exist before the call and
\* exists after it, shallowest first and the target last; a failed one
\* prints nothing.
C4_VerboseLines ==
    [][ (IterStep /\ parents /\ verbose) =>
            IF last'.created THEN LinesAreNewDirs ELSE stdout' = << >> ]_vars

\* the path names an entry that is a directory, whether or not the caller
\* may walk to it
ExistsAsDirectory(f, path) == Len(path) > 0 /\ IsDirKey(f, KeyOf(path))

\* C5 as stated: for a path that already exists as a directory, in every
\* filesystem state the runs reach: create_directory with parents succeeds,
\* changes no entry and prints no line; without parents it fails with
\* "already exists", changes nothing and prints no line.
C5_ExistingDirectory ==
    \A dir \in PathArgs :
        ExistsAsDirectory(fs, dir) =>
            \A verb \in BOOLEAN :
                /\ LET r == create_directory(fs, superuser, dir, TRUE, verb) IN
                      r.ok /\ r.fs = fs /\ r.out = << >>
                /\ LET r == create_directory(fs, superuser, dir, FALSE, verb) IN
                      ~r.ok /\ r.err = "EEXIST" /\ r.fs = fs /\ r.out = << >>

\* C5 as amended: for a path that already exists as a directory and that the
\* caller can look up (every directory on the way to it grants the caller
\* search permission), in every filesystem state the runs reach:
\* create_directory with parents succeeds, changes no entry and prints no
\* line; without parents it fails with "already exists", changes nothing and
\* prints no line; and so again on every repetition.
C5_ReachableDirectory ==
    /\ \A dir \in PathArgs :
          KindOf(fs, superuser, dir) = "dir" =>
              \A verb \in BOOLEAN :
                  /\ LET r == create_directory(fs, superuser, dir, TRUE, verb) IN
                        r.ok /\ r.fs = fs /\ r.out = << >>
                  /\ LET r == create_directory(fs, superuser, dir, FALSE, verb) IN
                        ~r.ok /\ r.err = "EEXIST" /\ r.fs = fs /\ r.out = << >>
    /\ (last.pos > 0 /\ last.existed = "dir") =>
          /\ last.created = parents
          /\ stdout = << >>
          /\ KindOf(fs, superuser, last.path) = "dir"
          /\ ~parents => (stderr # << >> /\ stderr[1].err = "EEXIST")

\* the second path of a run with parents and verbose was a directory
\* already: the call succeeded and printed nothing
C5_Witness ==
    /\ last.pos = 2
    /\ last.existed = "dir"
    /\ parents /\ verbose
    /\ last.created
    /\ stdout = << >>

\* the octal weights of the flags that are set, added up
ExpectedBits(m) ==
    (IF m.user_read THEN 256 ELSE 0) + (IF m.user_write THEN 128 ELSE 0)
    + (IF m.user_execute THEN 64 ELSE 0) + (IF m.group_read THEN 32 ELSE 0)
    + (IF m.group_write THEN 16 ELSE 0) + (IF m.group_execute THEN 8 ELSE 0)
    + (IF m.other_read THEN 4 ELSE 0) + (IF m.other_write THEN 2 ELSE 0)
    + (IF m.other_execute THEN 1 ELSE 0)

\* the bits the examples name: 0o754, 0o777, 0o050, 0o004, 0o222
ExampleBits(v) ==
    CASE v = << "u", "=", "r", "w", "x", ",", "g", "=", "r", "x", ",", "o", "=", "r" >>
            -> 7 * 64 + 5 * 8 + 4
      [] v = << "r", "w", "x" >> -> 7 * 64 + 7 * 8 + 7
      [] v = << "g", "=", "r", "x" >> -> 5 * 8
      [] v = << "o", "=", "r" >> -> 4
      [] v = << "w" >> -> 2 * 64 + 2 * 8 + 2

\* the permission bits of the target of the latest iteration are those of
\* the Mode
TargetHasModeBits ==
    /\ Len(last.path) > 0
    /\ KeyOf(last.path) \in DOMAIN fs
    /\ fs[KeyOf(last.path)].bits = ExpectedBits(mode.mode)
    /\ fs[KeyOf(last.path)].bits = ExampleBits(expr)

\* C6 as stated: for every path whose creation succeeds while a mode is
\* supplied, the target's permission bits after the path is processed are
\* exactly the OR of the weights of the Mode's set flags.
C6_BitsAfterCreation ==
    (last.pos > 0 /\ last.created /\ mode.some) => TargetHasModeBits

\* C6 as amended: for every path whose creation succeeds while a mode is
\* supplied and for which set_permissions succeeds, the target's permission
\* bits after the path is processed are exactly the OR of the weights of the
\* Mode's set flags, whatever bits the entry had before.
C6_BitsAfterChmod ==
    (last.pos > 0 /\ last.created /\ mode.some /\ last.chmod = "ok")
        => TargetHasModeBits

\* -m=w -p on an existing directory with other bits: the bits are now 0o222
C6_Witness ==
    /\ last.pos > 0
    /\ last.existed = "dir"
    /\ parents
    /\ expr = << "w" >>
    /\ last.chmod = "ok"
    /\ fs[KeyOf(last.path)].bits = 2 * 64 + 2 * 8 + 2

\* C7: a creation failure on the path at position i is reported on the error
\* stream, leads to no permission change for that path, and does not stop
\* the loop: the run goes on to position i + 1; paths are processed one at a
\* time in command-line order, and run stops early only when
\* set_permissions fails after a successful creation.
C7_CreationFailureContinues ==
    /\ [][ IterStep =>
             /\ pc = "run" /\ idx <= ndirs /\ last'.pos = idx
             /\ last.pos > 0 => last'.pos = last.pos + 1
             /\ ~last'.created =>
                   /\ stderr' = << Msg("cannot create directory", last'.path,
                                       stderr'[1].err) >>
                   /\ stderr'[1].err # "none"
                   /\ last'.chmod = "none"
                   /\ \A k \in DOMAIN fs :
                         k \in DOMAIN fs' /\ fs'[k].bits = fs[k].bits
                   /\ pc' = "run"
                   /\ idx' = idx + 1 ]_vars
    /\ [](pc = "main_err" => (last.created /\ last.chmod \notin { "none", "ok" }))
    /\ []((pc = "exited" /\ exit_code = 0 /\ last.chmod \in { "none", "ok" })
              => (idx = ndirs + 1 /\ last.pos = ndirs))
    /\ [][ (pc = "run" /\ idx <= ndirs) => IterStep ]_vars

\* the creation of the first of several paths failed and the loop stands at
\* the second
C7_Witness ==
    /\ pc = "run"
    /\ last.pos = 1
    /\ ~last.created
    /\ idx = 2
    /\ ndirs >= 2
    /\ stderr # << >>

\* C8: the process exits with a non-zero status when the mode expression
\* fails to parse, and when run returns an error because set_permissions
\* failed after a successful creation.
C8_NonZeroExitOnError ==
    (pc = "exited" /\ ((mode_arg.some /\ ~parsed.ok)
                       \/ last.chmod \notin { "none", "ok" }))
        => exit_code # 0

\* C9: when applying the mode fails for the path at position i, run returns
\* at once: no later path is created, reported or changed, and everything
\* created or set up to then, the directory just created included, stays as
\* it is.
C9_ChmodFailureStops ==
    /\ [][ (IterStep /\ last'.chmod \notin { "none", "ok" }) =>
             /\ last'.created
             /\ pc' = "main_err"
             /\ idx' = idx
             /\ \A k \in DOMAIN fs : k \in DOMAIN fs' /\ fs'[k] = fs[k]
             /\ fs' = create_directory(fs, superuser, last'.path, parents, verbose).fs
          ]_vars
    /\ [][ (last.chmod \notin { "none", "ok" }) =>
             (fs' = fs /\ last' = last /\ idx' = idx /\ stdout' = stdout) ]_vars
    /\ [](last.chmod \notin { "none", "ok" } =>
             (pc \in { "main_err", "exited" } /\ idx = last.pos))

\* the first of several paths is another user's directory, accepted with
\* parents, whose mode the caller could not set: run has returned the error
C9_Witness ==
    /\ pc = "exited"
    /\ last.pos = 1
    /\ ndirs >= 2
    /\ ~superuser
    /\ last.created
    /\ last.chmod = "EPERM"
    /\ ExistsAsDirectory(fs, last.path)

\* C10: whenever create_directory returns success for a path, with either
\* value of parents, the path exists as a directory when the call returns,
\* also when it was a regular file before and parents is set.
C10_SuccessMeansDirectory ==
    (last.pos > 0 /\ last.created) => ExistsAsDirectory(fs, last.path)

====
